---- MODULE Spec2Model ----
(***************************************************************************)
(* ResiGuard visitor management (src/index.tsx): the in-memory application *)
(* state, the event handlers that mutate it through setState, and the      *)
(* conditions under which render() puts the element that fires a handler   *)
(* into the DOM.  A handler is an operator giving the partial state it     *)
(* hands to setState; an action is one DOM event: the element is rendered  *)
(* and its handler runs to completion.                                     *)
(*                                                                         *)
(* Conventions.  null / undefined of an id, a timestamp or a handle is 0   *)
(* (JavaScript treats both as falsy, and the code tests them that way);    *)
(* currentUser = null is NoUser.  An instant is an integer; an ISO         *)
(* timestamp string is modelled by its instant (toISOString is injective   *)
(* and order preserving).                                                  *)
(***************************************************************************)
EXTENDS Integers, Sequences, FiniteSets, TLC

VARIABLES
    state,          \* let state = {...}                    (index.tsx 175-210)
    sessionStorage, \* the tab's sessionStorage: sessionId, activeChatId
    now,            \* the clock read by Date.now() and new Date()
    calls,          \* collaborator calls (sendMessage) not yet settled
    localStorage,   \* what init would load from 'resiGuardData' (index.tsx 1946-1956)
    saveTimeout     \* whether the timer of debounceSave is pending

vars == <<state, sessionStorage, now, calls, localStorage, saveTimeout>>

----------------------------------------------------------------------------
(* Bounds of the model *)

\* instant at which the page was loaded
LoadTime == 10
\* the clock may advance this many instants after load
MaxTicks == 1
\* seed users that are deleted or differ from their seed record
MaxChangedUsers == 2
\* visitor records that are new or differ from their seed record
MaxChangedVisitors == 2
\* threads in state.pendingChats plus startThread calls not yet settled
MaxChats == 2
\* messages in one conversation
MaxChatMessages == 4
\* collaborator calls that may be outstanding at once
MaxCalls == 1
MaxTypingCalls == 2
MaxSavedChanges == 1
\* units in the registry that are not seed units
MaxAddedUnits == 2
\* seed units missing from the registry
MaxDeletedUnits == 2
\* entries of state.sessions (a reload brings back entries whose removal was
\* not saved)
MaxSessions == 3
\* changed visitors, deleted users and deleted units together, where all
\* three stores are explored at once
MaxRegistryChanges == 2

----------------------------------------------------------------------------
(* Types and seed data *)

Roles == {"Admin", "Security", "Officer", "Resident"}

NoUser == [id |-> 0, username |-> "", password |-> "", role |-> "", unitNo |-> ""]

mockUsers ==
    << [id |-> 1, username |-> "admin",       password |-> "password", role |-> "Admin",    unitNo |-> ""],
       [id |-> 2, username |-> "security",    password |-> "password", role |-> "Security", unitNo |-> ""],
       [id |-> 3, username |-> "officer",     password |-> "password", role |-> "Officer",  unitNo |-> ""],
       [id |-> 4, username |-> "resident101", password |-> "password", role |-> "Resident", unitNo |-> "A-101"],
       [id |-> 5, username |-> "resident203", password |-> "password", role |-> "Resident", unitNo |-> "B-203"] >>

mockUnits ==
    << [block |-> "A", houseNo |-> "101"], [block |-> "A", houseNo |-> "102"], [block |-> "A", houseNo |-> "103"],
       [block |-> "B", houseNo |-> "201"], [block |-> "B", houseNo |-> "202"], [block |-> "B", houseNo |-> "203"],
       [block |-> "C", houseNo |-> "301"], [block |-> "C", houseNo |-> "305"], [block |-> "D", houseNo |-> "401"] >>

\* The seed's one check-in happened before the page was loaded.
mockVisitors ==
    << [id |-> 1, name |-> "ALICE JOHNSON", resident |-> "A-101", status |-> "Approved",
        checkInTime |-> 0, checkOutTime |-> 0],
       [id |-> 2, name |-> "BOB WILLIAMS", resident |-> "B-203", status |-> "Checked-in",
        checkInTime |-> LoadTime - 1, checkOutTime |-> 0],
       [id |-> 3, name |-> "CHARLIE BROWN", resident |-> "C-305", status |-> "Pending",
        checkInTime |-> 0, checkOutTime |-> 0] >>

defaultCompanyInfo == [name |-> "ResiGuard Local", personInCharge |-> "Admin User"]

----------------------------------------------------------------------------
(* Array helpers *)

\* Array.prototype.map
Map(s, F(_)) == [i \in DOMAIN s |-> F(s[i])]

\* Array.prototype.some
Some(s, P(_)) == \E i \in DOMAIN s : P(s[i])

\* Array.prototype.find, with `none` for undefined
Find(s, P(_), none) ==
    IF Some(s, P) THEN s[CHOOSE i \in DOMAIN s : P(s[i]) /\ \A j \in DOMAIN s : P(s[j]) => i <= j]
    ELSE none

\* users.filter(u => u.role === 'Admin').length
adminCount(users) == Len(SelectSeq(users, LAMBDA u : u.role = "Admin"))

----------------------------------------------------------------------------
(* State *)

\* init: what the tab holds once the stored data is loaded
loadedState(storedSessions) ==
        [
           visitors |-> mockVisitors,
           users |-> mockUsers,
           companyInfo |-> defaultCompanyInfo,
           predefinedUnits |-> mockUnits,
           pendingChats |-> << >>,
           sessions |-> storedSessions,
           isAuthenticated |-> FALSE,
           currentUser |-> NoUser,
           loginError |-> "",
           isModalOpen |-> FALSE,
           editingVisitorId |-> 0,
           isApprovalModalOpen |-> FALSE,
           isUserRoleModalOpen |-> FALSE,
           isEditUserModalOpen |-> FALSE,
           editingUserId |-> 0,
           isCompanySetupModalOpen |-> FALSE,
           isUnitManagementModalOpen |-> FALSE,
           isChatOpen |-> FALSE,
           chatState |-> "pre-form",
           chatMessages |-> << >>,
           isBotTyping |-> FALSE,
           chatSession |-> 0,
           isChatNotificationModalOpen |-> FALSE,
           viewingChatId |-> 0,
           activeChatId |-> 0 ]

\* setState: the state keys that are persisted to localStorage
keysToPersist ==
    {"visitors", "users", "companyInfo", "predefinedUnits", "pendingChats", "sessions"}

\* debounceSave: the dataToSave of a state
dataToSave(s) == [key \in keysToPersist |-> s[key]]

\* init with nothing saved: the collections it loads are the seed data
Init ==
    /\ state = loadedState(<< >>)
    /\ sessionStorage = [sessionId |-> 0, activeChatId |-> 0]
    /\ now = LoadTime
    /\ calls = << >>
    /\ localStorage = dataToSave(loadedState(<< >>))
    /\ saveTimeout = FALSE

\* sessions maps that other tabs of the browser may have left in localStorage
StoredSessions == {<< >>, (7 :> 2), (7 :> 2) @@ (8 :> 4)}

\* init in a new tab (empty sessionStorage) of a browser whose localStorage
\* holds the seed data and the sessions of other tabs
InitStored ==
    /\ \E stored \in StoredSessions :
           /\ state = loadedState(stored)
           /\ localStorage = dataToSave(loadedState(stored))
    /\ sessionStorage = [sessionId |-> 0, activeChatId |-> 0]
    /\ now = LoadTime
    /\ calls = << >>
    /\ saveTimeout = FALSE

\* setState: state = { ...state, ...newState }, and debounceSave() when a
\* persisted key is handed in (every handler hands in a new array or object)
\* and the state is authenticated; debounceSave restarts the timer
setState(newState) ==
    /\ state' = newState @@ state
    /\ saveTimeout' = IF DOMAIN newState \cap keysToPersist # {} /\ state'.isAuthenticated
                      THEN TRUE
                      ELSE saveTimeout
    /\ UNCHANGED localStorage

----------------------------------------------------------------------------
(* Session management *)

\* crypto.randomUUID(): an id no live session has (ids are positive numbers
\* here; the least unused one stands for any fresh one)
randomUUID ==
    CHOOSE n \in 1..(Cardinality(DOMAIN state.sessions) + 1) : n \notin DOMAIN state.sessions

\* createSession: records a fresh session id in state.sessions (and in the
\* tab's sessionStorage, see handleLoginSubmit)
createSession(user) ==
    [sessions |-> (randomUUID :> user.id) @@ state.sessions]

\* initializeUserSession, evaluated on the state `s` it reads
initializeUserSession(s, user) ==
    LET pendingVisitorsExist == Some(s.visitors, LAMBDA v : v.status = "Pending")
        shouldShowApprovalModal == user.role \in {"Admin", "Officer"} /\ pendingVisitorsExist
        pendingChatsExist == Some(s.pendingChats, LAMBDA c : ~c.dismissed)
        shouldShowChatModal == user.role \in {"Admin", "Officer"} /\ pendingChatsExist
        theirChats == SelectSeq(s.pendingChats,
                          LAMBDA c : c.userId = user.id /\ ~c.adminReplied /\ ~c.dismissed)
        \* theirChats.sort((a, b) => b.id - a.id)[0].id
        newest == CHOOSE i \in DOMAIN theirChats :
                      \A j \in DOMAIN theirChats : theirChats[j].id <= theirChats[i].id
        userActiveChatId == IF user.role = "Resident" /\ Len(theirChats) > 0
                            THEN theirChats[newest].id ELSE 0
    IN  [isAuthenticated |-> TRUE,
         currentUser |-> user,
         loginError |-> "",
         isApprovalModalOpen |-> shouldShowApprovalModal,
         isChatNotificationModalOpen |-> shouldShowChatModal,
         activeChatId |-> userActiveChatId]

\* handleLoginSubmit looking the user up by username alone; C15 tells it
\* from the code
handleLoginSubmitByUsername(username, password) ==
    LET user == Find(state.users, LAMBDA u : u.username = username, NoUser)
    IN  IF user # NoUser
        THEN LET created == createSession(user) @@ state
                 started == initializeUserSession(created, user)
             IN  /\ state' = started @@ created
                 /\ saveTimeout' = IF state.isAuthenticated THEN TRUE ELSE saveTimeout
                 /\ UNCHANGED localStorage
                 /\ sessionStorage' =
                        [sessionId |-> randomUUID,
                         activeChatId |-> IF started.activeChatId # 0
                                          THEN started.activeChatId
                                          ELSE sessionStorage.activeChatId]
        ELSE /\ setState([loginError |-> "Invalid username or password."])
             /\ UNCHANGED sessionStorage

\* handleLoginSubmit
handleLoginSubmit(username, password) ==
    LET user == Find(state.users,
                     LAMBDA u : u.username = username /\ u.password = password, NoUser)
    IN  IF user # NoUser
        THEN LET created == createSession(user) @@ state
                 started == initializeUserSession(created, user)
             IN  /\ state' = started @@ created
                 /\ saveTimeout' = IF state.isAuthenticated THEN TRUE ELSE saveTimeout
                 /\ UNCHANGED localStorage
                 /\ sessionStorage' =
                        [sessionId |-> randomUUID,
                         activeChatId |-> IF started.activeChatId # 0
                                          THEN started.activeChatId
                                          ELSE sessionStorage.activeChatId]
        ELSE /\ setState([loginError |-> "Invalid username or password."])
             /\ UNCHANGED sessionStorage

\* destroySession emptying the sessions map; C16 tells it from the code
destroySessionOfEveryTab ==
    LET sessionId == sessionStorage.sessionId
    IN  IF sessionId # 0 /\ sessionId \in DOMAIN state.sessions
        THEN [sessions |-> << >>]
        ELSE << >>

\* destroySession: the sessions map without the tab's session id
destroySession ==
    LET sessionId == sessionStorage.sessionId
    IN  IF sessionId # 0 /\ sessionId \in DOMAIN state.sessions
        THEN [sessions |-> [t \in DOMAIN state.sessions \ {sessionId} |-> state.sessions[t]]]
        ELSE << >>

\* handleLogout
handleLogout ==
    /\ state' = [isAuthenticated |-> FALSE,
                 currentUser |-> NoUser,
                 isModalOpen |-> FALSE,
                 editingVisitorId |-> 0,
                 isCompanySetupModalOpen |-> FALSE,
                 isUserRoleModalOpen |-> FALSE,
                 isEditUserModalOpen |-> FALSE,
                 isUnitManagementModalOpen |-> FALSE,
                 isApprovalModalOpen |-> FALSE,
                 isChatOpen |-> FALSE,
                 chatState |-> "pre-form",
                 chatMessages |-> << >>,
                 isBotTyping |-> FALSE,
                 chatSession |-> 0,
                 viewingChatId |-> 0,
                 activeChatId |-> 0,
                 isChatNotificationModalOpen |-> FALSE] @@ destroySession @@ state
    /\ sessionStorage' = [sessionId |-> 0, activeChatId |-> 0]
    /\ saveTimeout' = IF DOMAIN destroySession \cap keysToPersist # {} /\ state.isAuthenticated
                      THEN TRUE
                      ELSE saveTimeout
    /\ UNCHANGED localStorage

\* render: the login page replaces the application while nobody is signed in
LoginFormRendered == ~state.isAuthenticated \/ state.currentUser = NoUser

\* renderHeader: every signed-in user gets the logout button
HeaderRendered == state.isAuthenticated /\ state.currentUser # NoUser

\* what may be typed into the login form
LoginUsernames == {state.users[i].username : i \in DOMAIN state.users} \cup {"nobody"}
LoginPasswords == {state.users[i].password : i \in DOMAIN state.users} \cup {"wrong"}

Login ==
    /\ LoginFormRendered
    /\ \E username \in LoginUsernames, password \in LoginPasswords :
           handleLoginSubmit(username, password)
    /\ Cardinality(DOMAIN state'.sessions) <= MaxSessions
    /\ UNCHANGED <<now, calls>>

Logout ==
    /\ HeaderRendered
    /\ handleLogout
    /\ UNCHANGED <<now, calls>>

\* debounceSave: the timer fires; its callback writes dataToSave unless the
\* state is not authenticated by then
SaveTimeout ==
    /\ saveTimeout
    /\ saveTimeout' = FALSE
    /\ localStorage' = IF state.isAuthenticated THEN dataToSave(state) ELSE localStorage
    /\ UNCHANGED <<state, sessionStorage, now, calls>>

\* init on a state `tempState` = the fresh state object with the loaded
\* collections: the user of the tab's session, NoUser when there is none
sessionUser(tempState, sessionId) ==
    LET userId == IF sessionId # 0 /\ sessionId \in DOMAIN tempState.sessions
                  THEN tempState.sessions[sessionId] ELSE 0
    IN  IF userId # 0 THEN Find(tempState.users, LAMBDA u : u.id = userId, NoUser) ELSE NoUser

\* init in a tab whose sessionStorage holds `sessionId`, when localStorage
\* holds `stored`: the state the page load ends in
initOfTab(stored, sessionId) ==
    LET tempState == stored @@ loadedState(<< >>)
        user == sessionUser(tempState, sessionId)
    IN  IF user # NoUser
        THEN initializeUserSession(tempState, user) @@ tempState
        ELSE tempState

\* init: the state a reload of this page ends in when localStorage holds
\* `stored`
init(stored) == initOfTab(stored, sessionStorage.sessionId)

\* the page is reloaded: the state object, the timer and the pending promises
\* of the old page are gone, sessionStorage and localStorage stay; init ends
\* in a setState that hands in the persisted collections
Reload ==
    /\ state' = init(localStorage)
    /\ sessionStorage' =
           IF state'.isAuthenticated
           THEN [sessionStorage EXCEPT !.activeChatId =
                     IF state'.activeChatId # 0 THEN state'.activeChatId ELSE @]
           ELSE [sessionStorage EXCEPT !.sessionId = 0]
    /\ saveTimeout' = state'.isAuthenticated
    /\ calls' = << >>
    /\ UNCHANGED <<now, localStorage>>

\* time passes
Tick ==
    /\ now < LoadTime + MaxTicks
    /\ now' = now + 1
    /\ UNCHANGED <<state, sessionStorage, calls, localStorage, saveTimeout>>

----------------------------------------------------------------------------
(* User and role management *)

\* handleUserRolesClick / handleCloseUserRoleModal
handleUserRolesClick == [isUserRoleModalOpen |-> TRUE]
handleCloseUserRoleModal == [isUserRoleModalOpen |-> FALSE]

\* handleOpenEditUserModal / handleCloseEditUserModal
handleOpenEditUserModal(id) == [isEditUserModalOpen |-> TRUE, editingUserId |-> id]
handleCloseEditUserModal == [isEditUserModalOpen |-> FALSE, editingUserId |-> 0]

\* String.prototype.trim on the strings the model types into forms
trim(str) ==
    CASE str = " " -> ""
      [] str = " security " -> "security"
      [] str = " A " -> "A"
      [] str = " 9 " -> "9"
      [] OTHER -> str

\* handleEditUserFormSubmit without the test for a username that another user
\* holds; C19 tells it from the code
handleEditUserFormSubmitAnyName(usernameInput, newPassword, confirmPassword) ==
    LET username == trim(usernameInput)
        updatedUsers == Map(state.users,
                            LAMBDA user : IF user.id = state.editingUserId
                                          THEN [user EXCEPT !.username = username,
                                                            !.password = IF newPassword # ""
                                                                         THEN newPassword
                                                                         ELSE user.password]
                                          ELSE user)
    IN  IF username = "" THEN << >>
        ELSE IF newPassword # confirmPassword THEN << >>
        ELSE [users |-> updatedUsers, isEditUserModalOpen |-> FALSE, editingUserId |-> 0]

\* handleEditUserFormSubmit: the partial state handed to setState, << >> when
\* the handler returns after an alert
handleEditUserFormSubmit(usernameInput, newPassword, confirmPassword) ==
    LET username == trim(usernameInput)
        isUsernameTaken == Some(state.users,
                               LAMBDA u : u.username = username /\ u.id # state.editingUserId)
        updatedUsers == Map(state.users,
                            LAMBDA user : IF user.id = state.editingUserId
                                          THEN [user EXCEPT !.username = username,
                                                            !.password = IF newPassword # ""
                                                                         THEN newPassword
                                                                         ELSE user.password]
                                          ELSE user)
    IN  IF username = "" THEN << >>
        ELSE IF newPassword # confirmPassword THEN << >>
        ELSE IF isUsernameTaken THEN << >>
        ELSE [users |-> updatedUsers, isEditUserModalOpen |-> FALSE, editingUserId |-> 0]

\* handleDeleteUser with the last-administrator test off by one
\* (adminCount < 1); C7 tells it from the code
handleDeleteUserOffByOne(id, confirmed) ==
    LET userToDelete == Find(state.users, LAMBDA u : u.id = id, NoUser)
    IN  IF userToDelete = NoUser THEN << >>
        ELSE IF userToDelete.id = state.currentUser.id THEN << >>
        ELSE IF userToDelete.role = "Admin" /\ adminCount(state.users) < 1 THEN << >>
        ELSE IF confirmed
             THEN [users |-> SelectSeq(state.users, LAMBDA user : user.id # id)]
             ELSE << >>

\* handleDeleteUser without the own-account test; C8 tells it from the code
handleDeleteUserNoSelfTest(id, confirmed) ==
    LET userToDelete == Find(state.users, LAMBDA u : u.id = id, NoUser)
    IN  IF userToDelete = NoUser THEN << >>
        ELSE IF userToDelete.role = "Admin" /\ adminCount(state.users) <= 1 THEN << >>
        ELSE IF confirmed
             THEN [users |-> SelectSeq(state.users, LAMBDA user : user.id # id)]
             ELSE << >>

\* handleDeleteUser: `confirmed` is the answer to confirm()
handleDeleteUser(id, confirmed) ==
    LET userToDelete == Find(state.users, LAMBDA u : u.id = id, NoUser)
    IN  IF userToDelete = NoUser THEN << >>
        ELSE IF userToDelete.id = state.currentUser.id THEN << >>
        ELSE IF userToDelete.role = "Admin" /\ adminCount(state.users) <= 1 THEN << >>
        ELSE IF confirmed
             THEN [users |-> SelectSeq(state.users, LAMBDA user : user.id # id)]
             ELSE << >>

\* handleRoleChange without the only-administrator test; C9 tells it from
\* the code
handleRoleChangeUnguarded(userIdToUpdate, newRole) ==
    IF userIdToUpdate = 0 THEN << >>
    ELSE [users |-> Map(state.users,
                        LAMBDA user : IF user.id = userIdToUpdate
                                      THEN [user EXCEPT !.role = newRole]
                                      ELSE user)]

\* handleRoleChange
handleRoleChange(userIdToUpdate, newRole) ==
    LET isChangingSelf == state.currentUser.id = userIdToUpdate
    IN  IF userIdToUpdate = 0 THEN << >>
        ELSE IF isChangingSelf /\ newRole # "Admin" /\ adminCount(state.users) <= 1 THEN << >>
        ELSE [users |-> Map(state.users,
                            LAMBDA user : IF user.id = userIdToUpdate
                                          THEN [user EXCEPT !.role = newRole]
                                          ELSE user)]

\* renderHeader: the administration buttons
AdminButtonsRendered == HeaderRendered /\ state.currentUser.role = "Admin"

\* renderUserRoleModal: one row per user, its select disabled for the last
\* administrator's own row
canChangeRole(user) ==
    ~(state.currentUser.id = user.id /\ adminCount(state.users) <= 1)

\* renderEditUserModal
EditUserFormRendered ==
    /\ state.isEditUserModalOpen
    /\ Some(state.users, LAMBDA u : u.id = state.editingUserId)

\* the part of the user store the model explores
SeedUser(id) == Find(mockUsers, LAMBDA u : u.id = id, NoUser)
UsersWithinBounds(users) ==
    Cardinality({i \in DOMAIN users : users[i] # SeedUser(users[i].id)})
        + (Len(mockUsers) - Len(users)) <= MaxChangedUsers

\* what may be typed into the edit-user form
UsernameInputs == {"", " ", "admin", " security ", "root"}
PasswordInputs == {"", "secret"}

UserRolesClick ==
    /\ AdminButtonsRendered
    /\ setState(handleUserRolesClick)
    /\ UNCHANGED <<sessionStorage, now, calls>>

CloseUserRoleModal ==
    /\ state.isUserRoleModalOpen
    /\ setState(handleCloseUserRoleModal)
    /\ UNCHANGED <<sessionStorage, now, calls>>

RoleChange ==
    /\ state.isUserRoleModalOpen
    /\ \E i \in DOMAIN state.users, newRole \in Roles :
           /\ canChangeRole(state.users[i])
           /\ newRole # state.users[i].role
           /\ setState(handleRoleChange(state.users[i].id, newRole))
    /\ UsersWithinBounds(state'.users)
    /\ UNCHANGED <<sessionStorage, now, calls>>

DeleteUser ==
    /\ state.isUserRoleModalOpen
    /\ \E i \in DOMAIN state.users, confirmed \in BOOLEAN :
           setState(handleDeleteUser(state.users[i].id, confirmed))
    /\ UsersWithinBounds(state'.users)
    /\ UNCHANGED <<sessionStorage, now, calls>>

OpenEditUserModal ==
    /\ state.isUserRoleModalOpen
    /\ \E i \in DOMAIN state.users : setState(handleOpenEditUserModal(state.users[i].id))
    /\ UNCHANGED <<sessionStorage, now, calls>>

CloseEditUserModal ==
    /\ EditUserFormRendered
    /\ setState(handleCloseEditUserModal)
    /\ UNCHANGED <<sessionStorage, now, calls>>

EditUserFormSubmit ==
    /\ EditUserFormRendered
    /\ \E username \in UsernameInputs, newPassword \in PasswordInputs,
          confirmPassword \in PasswordInputs :
           setState(handleEditUserFormSubmit(username, newPassword, confirmPassword))
    /\ UsersWithinBounds(state'.users)
    /\ UNCHANGED <<sessionStorage, now, calls>>

----------------------------------------------------------------------------
(* Visitor registry and lifecycle *)

\* String.prototype.toUpperCase on the strings the model types into forms
toUpperCase(str) ==
    CASE str = "john doe" -> "JOHN DOE"
      [] str = "a" -> "A"
      [] OTHER -> str

\* handleRegisterClick / handleEditClick / handleCloseModal
handleRegisterClick == [isModalOpen |-> TRUE, editingVisitorId |-> 0]
handleEditClick(id) == [isModalOpen |-> TRUE, editingVisitorId |-> id]
handleCloseModal == [isModalOpen |-> FALSE, editingVisitorId |-> 0]

\* handleFormSubmit registering the visitor in place of the newest record
\* instead of in front of the list; C21 tells it from the code
handleFormSubmitReplacing(nameInput, blockInput, houseNoInput) ==
    LET block == toUpperCase(trim(blockInput))
        houseNo == trim(houseNoInput)
        residentUnit == block \o "-" \o houseNo
        name == toUpperCase(trim(nameInput))
        updatedVisitors == Map(state.visitors,
                               LAMBDA v : IF v.id = state.editingVisitorId
                                          THEN [v EXCEPT !.name = name, !.resident = residentUnit]
                                          ELSE v)
        newVisitor == [id |-> now, name |-> name, resident |-> residentUnit,
                       status |-> "Pending", checkInTime |-> 0, checkOutTime |-> 0]
    IN  IF state.editingVisitorId # 0
        THEN [visitors |-> updatedVisitors, isModalOpen |-> FALSE, editingVisitorId |-> 0]
        ELSE [visitors |-> <<newVisitor>> \o Tail(state.visitors), isModalOpen |-> FALSE]

\* handleFormSubmit: edits the visitor being edited, or registers a new one
\* whose id is the current instant
handleFormSubmit(nameInput, blockInput, houseNoInput) ==
    LET block == toUpperCase(trim(blockInput))
        houseNo == trim(houseNoInput)
        residentUnit == block \o "-" \o houseNo
        name == toUpperCase(trim(nameInput))
        updatedVisitors == Map(state.visitors,
                               LAMBDA v : IF v.id = state.editingVisitorId
                                          THEN [v EXCEPT !.name = name, !.resident = residentUnit]
                                          ELSE v)
        newVisitor == [id |-> now, name |-> name, resident |-> residentUnit,
                       status |-> "Pending", checkInTime |-> 0, checkOutTime |-> 0]
    IN  IF state.editingVisitorId # 0
        THEN [visitors |-> updatedVisitors, isModalOpen |-> FALSE, editingVisitorId |-> 0]
        ELSE [visitors |-> <<newVisitor>> \o state.visitors, isModalOpen |-> FALSE]

\* handleCheckIn
handleCheckIn(id) ==
    [visitors |-> Map(state.visitors,
                      LAMBDA v : IF v.id = id
                                 THEN [v EXCEPT !.status = "Checked-in", !.checkInTime = now]
                                 ELSE v)]

\* handleCheckOut
handleCheckOut(id) ==
    [visitors |-> Map(state.visitors,
                      LAMBDA v : IF v.id = id
                                 THEN [v EXCEPT !.status = "Checked-out", !.checkOutTime = now]
                                 ELSE v)]

\* handleApprove
handleApprove(id) ==
    LET visitors == Map(state.visitors,
                        LAMBDA v : IF v.id = id THEN [v EXCEPT !.status = "Approved"] ELSE v)
        stillPending == Some(visitors, LAMBDA v : v.status = "Pending")
    IN  [visitors |-> visitors,
         isApprovalModalOpen |-> state.isApprovalModalOpen /\ stillPending]

\* handleReject
handleReject(id) ==
    LET visitors == Map(state.visitors,
                        LAMBDA v : IF v.id = id THEN [v EXCEPT !.status = "Rejected"] ELSE v)
        stillPending == Some(visitors, LAMBDA v : v.status = "Pending")
    IN  [visitors |-> visitors,
         isApprovalModalOpen |-> state.isApprovalModalOpen /\ stillPending]

\* handleCloseApprovalModal
handleCloseApprovalModal == [isApprovalModalOpen |-> FALSE]

\* renderVisitorsGrid: the cards the signed-in user is shown (a resident
\* sees the visitors of the resident's own unit)
filteredVisitors ==
    IF ~HeaderRendered THEN << >>
    ELSE IF state.currentUser.role = "Resident"
         THEN SelectSeq(state.visitors, LAMBDA v : v.resident = state.currentUser.unitNo)
         ELSE state.visitors

\* renderVisitorsGrid: who gets which buttons
canEdit == state.currentUser.role \in {"Admin", "Officer"}
canApprove == state.currentUser.role \in {"Admin", "Officer"}
canCheckIn == state.currentUser.role \in {"Admin", "Security"}

\* renderVisitorsGrid: the action buttons of a card
GridApproveButton(v) == v.status = "Pending" /\ canApprove
GridRejectButton(v) == v.status = "Pending" /\ canApprove
GridCheckInButton(v) == v.status = "Approved" /\ canCheckIn
GridCheckOutButton(v) == v.status = "Checked-in" /\ canCheckIn
GridEditButton(v) == canEdit

\* renderApprovalModal: one approve and one reject button per pending visitor
pendingVisitors ==
    IF state.isApprovalModalOpen
    THEN SelectSeq(state.visitors, LAMBDA v : v.status = "Pending")
    ELSE << >>

\* renderDashboardView: the register button
RegisterButtonRendered ==
    HeaderRendered /\ state.currentUser.role \in {"Admin", "Officer", "Security"}

\* renderVisitorFormModal
VisitorFormRendered == state.isModalOpen

\* the part of the visitor registry the model explores
SeedVisitor(id) ==
    Find(mockVisitors, LAMBDA v : v.id = id,
         [id |-> 0, name |-> "", resident |-> "", status |-> "",
          checkInTime |-> 0, checkOutTime |-> 0])
VisitorsWithinBounds(visitors) ==
    Cardinality({i \in DOMAIN visitors : visitors[i] # SeedVisitor(visitors[i].id)})
        <= MaxChangedVisitors

\* what may be typed into the visitor form
VisitorNameInputs == {"john doe"}
VisitorBlockInputs == {"A"}
VisitorHouseNoInputs == {"101", " 9 "}

RegisterClick ==
    /\ RegisterButtonRendered
    /\ setState(handleRegisterClick)
    /\ UNCHANGED <<sessionStorage, now, calls>>

EditClick ==
    /\ \E i \in DOMAIN filteredVisitors :
           /\ GridEditButton(filteredVisitors[i])
           /\ setState(handleEditClick(filteredVisitors[i].id))
    /\ UNCHANGED <<sessionStorage, now, calls>>

CloseModal ==
    /\ VisitorFormRendered
    /\ setState(handleCloseModal)
    /\ UNCHANGED <<sessionStorage, now, calls>>

FormSubmit ==
    /\ VisitorFormRendered
    /\ \E name \in VisitorNameInputs, block \in VisitorBlockInputs,
          houseNo \in VisitorHouseNoInputs :
           setState(handleFormSubmit(name, block, houseNo))
    /\ VisitorsWithinBounds(state'.visitors)
    /\ UNCHANGED <<sessionStorage, now, calls>>

Approve ==
    /\ \/ \E i \in DOMAIN filteredVisitors :
              /\ GridApproveButton(filteredVisitors[i])
              /\ setState(handleApprove(filteredVisitors[i].id))
       \/ \E i \in DOMAIN pendingVisitors : setState(handleApprove(pendingVisitors[i].id))
    /\ VisitorsWithinBounds(state'.visitors)
    /\ UNCHANGED <<sessionStorage, now, calls>>

Reject ==
    /\ \/ \E i \in DOMAIN filteredVisitors :
              /\ GridRejectButton(filteredVisitors[i])
              /\ setState(handleReject(filteredVisitors[i].id))
       \/ \E i \in DOMAIN pendingVisitors : setState(handleReject(pendingVisitors[i].id))
    /\ VisitorsWithinBounds(state'.visitors)
    /\ UNCHANGED <<sessionStorage, now, calls>>

CheckIn ==
    /\ \E i \in DOMAIN filteredVisitors :
           /\ GridCheckInButton(filteredVisitors[i])
           /\ setState(handleCheckIn(filteredVisitors[i].id))
    /\ VisitorsWithinBounds(state'.visitors)
    /\ UNCHANGED <<sessionStorage, now, calls>>

CheckOut ==
    /\ \E i \in DOMAIN filteredVisitors :
           /\ GridCheckOutButton(filteredVisitors[i])
           /\ setState(handleCheckOut(filteredVisitors[i].id))
    /\ VisitorsWithinBounds(state'.visitors)
    /\ UNCHANGED <<sessionStorage, now, calls>>

CloseApprovalModal ==
    /\ Len(pendingVisitors) > 0
    /\ setState(handleCloseApprovalModal)
    /\ UNCHANGED <<sessionStorage, now, calls>>

----------------------------------------------------------------------------
(* Unit registry *)

\* handleManageUnitsClick / handleCloseUnitManagementModal
handleManageUnitsClick == [isUnitManagementModalOpen |-> TRUE]
handleCloseUnitManagementModal == [isUnitManagementModalOpen |-> FALSE]

\* the UTF-16 code unit of a one-letter block name: a.block < b.block
\* compares the strings by code units
codeUnit(block) ==
    CASE block = "A" -> 65
      [] block = "B" -> 66
      [] block = "C" -> 67
      [] block = "D" -> 68
      [] block = "a" -> 97

\* the number a string of digits denotes
numericValue(houseNo) ==
    CASE houseNo = "9" -> 9
      [] houseNo = "10" -> 10
      [] houseNo = "101" -> 101
      [] houseNo = "102" -> 102
      [] houseNo = "103" -> 103
      [] houseNo = "201" -> 201
      [] houseNo = "202" -> 202
      [] houseNo = "203" -> 203
      [] houseNo = "301" -> 301
      [] houseNo = "305" -> 305
      [] houseNo = "401" -> 401

\* the position of a string of digits in code-unit order ("10" < "101" < "9")
codeUnitRank(houseNo) ==
    CASE houseNo = "10" -> 1
      [] houseNo = "101" -> 2
      [] houseNo = "102" -> 3
      [] houseNo = "103" -> 4
      [] houseNo = "201" -> 5
      [] houseNo = "202" -> 6
      [] houseNo = "203" -> 7
      [] houseNo = "301" -> 8
      [] houseNo = "305" -> 9
      [] houseNo = "401" -> 10
      [] houseNo = "9" -> 11

\* a.localeCompare(b) without the numeric option; C18 tells it from the code
localeCompareByCodeUnits(a, b) ==
    IF codeUnitRank(a) < codeUnitRank(b) THEN -1
    ELSE IF codeUnitRank(a) > codeUnitRank(b) THEN 1
    ELSE 0

\* a.localeCompare(b, undefined, { numeric: true }) on strings of digits
localeCompare(a, b) ==
    IF numericValue(a) < numericValue(b) THEN -1
    ELSE IF numericValue(a) > numericValue(b) THEN 1
    ELSE 0

\* the comparator handleAddUnitSubmit hands to sort
compareUnits(a, b) ==
    IF codeUnit(a.block) < codeUnit(b.block) THEN -1
    ELSE IF codeUnit(a.block) > codeUnit(b.block) THEN 1
    ELSE localeCompare(a.houseNo, b.houseNo)

\* Array.prototype.sort with compareUnits: a stable sort, here by insertion
RECURSIVE sortUnits(_)
sortUnits(units) ==
    IF units = << >> THEN << >>
    ELSE LET sorted == sortUnits(SubSeq(units, 1, Len(units) - 1))
             unit == units[Len(units)]
         IN  SelectSeq(sorted, LAMBDA u : compareUnits(u, unit) <= 0)
                 \o << unit >>
                 \o SelectSeq(sorted, LAMBDA u : compareUnits(u, unit) > 0)

\* handleAddUnitSubmit accepting a unit that is already there; C17 tells it
\* from the code
handleAddUnitSubmitUnchecked(blockInput, houseNoInput) ==
    LET block == toUpperCase(trim(blockInput))
        houseNo == trim(houseNoInput)
        newUnit == [block |-> block, houseNo |-> houseNo]
    IN  IF block = "" \/ houseNo = "" THEN << >>
        ELSE [predefinedUnits |-> sortUnits(Append(state.predefinedUnits, newUnit))]

\* handleAddUnitSubmit: << >> when the handler returns after an alert
handleAddUnitSubmit(blockInput, houseNoInput) ==
    LET block == toUpperCase(trim(blockInput))
        houseNo == trim(houseNoInput)
        newUnit == [block |-> block, houseNo |-> houseNo]
    IN  IF block = "" \/ houseNo = "" THEN << >>
        ELSE IF Some(state.predefinedUnits,
                     LAMBDA u : u.block = block /\ u.houseNo = houseNo) THEN << >>
        ELSE [predefinedUnits |-> sortUnits(Append(state.predefinedUnits, newUnit))]

\* handleDeleteUnit taking the visitors of the unit with it; C23 tells it
\* from the code
handleDeleteUnitWithVisitors(block, houseNo, confirmed) ==
    IF ~confirmed THEN << >>
    ELSE [predefinedUnits |-> SelectSeq(state.predefinedUnits,
                                        LAMBDA u : ~(u.block = block /\ u.houseNo = houseNo)),
          visitors |-> SelectSeq(state.visitors,
                                 LAMBDA v : v.resident # block \o "-" \o houseNo)]

\* handleDeleteUnit; confirmed is the answer to confirm()
handleDeleteUnit(block, houseNo, confirmed) ==
    IF ~confirmed THEN << >>
    ELSE [predefinedUnits |-> SelectSeq(state.predefinedUnits,
                                        LAMBDA u : ~(u.block = block /\ u.houseNo = houseNo))]

\* renderUnitManagementModal: the add form and one delete button per unit
UnitManagementModalRendered == state.isUnitManagementModalOpen

\* the part of the unit registry the model explores
UnitsWithinBounds(units) ==
    /\ Cardinality({i \in DOMAIN units : ~Some(mockUnits, LAMBDA u : u = units[i])})
           <= MaxAddedUnits
    /\ Cardinality({i \in DOMAIN mockUnits : ~Some(units, LAMBDA u : u = mockUnits[i])})
           <= MaxDeletedUnits

\* what may be typed into the add-unit form
UnitBlockInputs == {" ", "a", " A ", "D"}
UnitHouseNoInputs == {" ", " 9 ", "10", "101"}

ManageUnitsClick ==
    /\ AdminButtonsRendered
    /\ setState(handleManageUnitsClick)
    /\ UNCHANGED <<sessionStorage, now, calls>>

CloseUnitManagementModal ==
    /\ UnitManagementModalRendered
    /\ setState(handleCloseUnitManagementModal)
    /\ UNCHANGED <<sessionStorage, now, calls>>

AddUnitSubmit ==
    /\ UnitManagementModalRendered
    /\ \E blockInput \in UnitBlockInputs, houseNoInput \in UnitHouseNoInputs :
           setState(handleAddUnitSubmit(blockInput, houseNoInput))
    /\ UnitsWithinBounds(state'.predefinedUnits)
    /\ UNCHANGED <<sessionStorage, now, calls>>

DeleteUnit ==
    /\ UnitManagementModalRendered
    /\ \E i \in DOMAIN state.predefinedUnits, confirmed \in BOOLEAN :
           setState(handleDeleteUnit(state.predefinedUnits[i].block,
                                     state.predefinedUnits[i].houseNo, confirmed))
    /\ UnitsWithinBounds(state'.predefinedUnits)
    /\ UNCHANGED <<sessionStorage, now, calls>>

----------------------------------------------------------------------------
(* Chat threads *)

NoChat == [id |-> 0, userId |-> 0, userName |-> "", unit |-> "", initialQuery |-> "",
           messages |-> << >>, dismissed |-> FALSE, adminReplied |-> FALSE]

\* what the collaborator answers (response.text)
BotTexts == {"ok"}

\* handleToggleChat, closing branch: the open conversation is locked
closingLockedChat ==
    LET activeChat == Find(state.pendingChats,
                           LAMBDA c : c.id = state.activeChatId \/ c.id = state.viewingChatId,
                           NoChat)
    IN  state.currentUser.role = "Resident" /\ activeChat.adminReplied

\* handleToggleChat
handleToggleChat ==
    LET willBeOpen == ~state.isChatOpen
        activeChat == Find(state.pendingChats, LAMBDA c : c.id = state.activeChatId, NoChat)
    IN  IF willBeOpen
        THEN IF activeChat # NoChat /\ state.currentUser.role = "Resident"
             THEN [isChatOpen |-> TRUE, viewingChatId |-> 0,
                   chatMessages |-> activeChat.messages, chatState |-> "chatting"]
             ELSE [isChatOpen |-> TRUE, viewingChatId |-> 0, chatState |-> "pre-form",
                   chatMessages |-> << >>, activeChatId |-> 0]
        ELSE IF closingLockedChat
             THEN [isChatOpen |-> FALSE, chatState |-> "pre-form", chatMessages |-> << >>,
                   isBotTyping |-> FALSE, chatSession |-> 0, activeChatId |-> 0,
                   viewingChatId |-> 0]
             ELSE [isChatOpen |-> FALSE, viewingChatId |-> 0]

\* handleStartChatSubmit up to its await: the partial state handed to
\* setState, << >> when the form is incomplete
handleStartChatSubmit(name, block, houseNo, initialQueryInput) ==
    LET initialQuery == trim(initialQueryInput)
        firstUserMessage == [sender |-> "user", text |-> initialQuery]
        newChatId == now
    IN  IF name = "" \/ block = "" \/ houseNo = "" \/ initialQuery = "" THEN << >>
        ELSE [chatSession |-> 1, chatState |-> "chatting",
              chatMessages |-> <<firstUserMessage>>, isBotTyping |-> TRUE,
              activeChatId |-> newChatId]

\* handleStartChatSubmit: the sendMessage call it awaits, with the locals the
\* continuation keeps (newChatId, name, unit, initialQuery, firstUserMessage).
\* invokedBy is history the code does not keep: the id of the user signed in
\* when the handler was invoked; no handler reads it
startChatCalls(name, block, houseNo, initialQueryInput) ==
    LET initialQuery == trim(initialQueryInput)
    IN  IF name = "" \/ block = "" \/ houseNo = "" \/ initialQuery = "" THEN << >>
        ELSE << [kind |-> "start", invokedBy |-> state.currentUser.id,
                 chatId |-> now, userName |-> name,
                 unit |-> block \o "-" \o houseNo, initialQuery |-> initialQuery,
                 messages |-> << [sender |-> "user", text |-> initialQuery] >>] >>

\* handleStartChatSubmit after the await resolved: the thread is recorded
\* for whoever is signed in now
startChatResolved(call, botText) ==
    LET finalMessages == call.messages \o << [sender |-> "bot", text |-> botText] >>
        newPendingChat == [id |-> call.chatId,
                           userId |-> state.currentUser.id,
                           userName |-> call.userName,
                           unit |-> call.unit,
                           initialQuery |-> call.initialQuery,
                           messages |-> finalMessages,
                           dismissed |-> FALSE,
                           adminReplied |-> FALSE]
    IN  [chatMessages |-> finalMessages, isBotTyping |-> FALSE,
         pendingChats |-> Append(state.pendingChats, newPendingChat)]

\* handleStartChatSubmit after the await rejected
startChatRejected(call) ==
    [chatMessages |-> Append(state.chatMessages,
                             [sender |-> "bot", text |-> "Sorry, I'm having trouble connecting. Please try again later."]),
     isBotTyping |-> FALSE]

\* handleUserChatSubmit up to its await (its two setState calls)
handleUserChatSubmit(userInputRaw) ==
    LET userInput == trim(userInputRaw)
        userMessage == [sender |-> "user", text |-> userInput]
        currentMessages == Append(state.chatMessages, userMessage)
        updatedPendingChats == Map(state.pendingChats,
                                   LAMBDA chat : IF chat.id = state.activeChatId
                                                 THEN [chat EXCEPT !.messages = currentMessages]
                                                 ELSE chat)
    IN  IF userInput = "" \/ state.chatSession = 0 \/ state.activeChatId = 0 THEN << >>
        ELSE [chatMessages |-> currentMessages, isBotTyping |-> TRUE,
              pendingChats |-> updatedPendingChats]

\* handleUserChatSubmit: the sendMessage call it awaits, with currentMessages
userChatCalls(userInputRaw) ==
    LET userInput == trim(userInputRaw)
    IN  IF userInput = "" \/ state.chatSession = 0 \/ state.activeChatId = 0 THEN << >>
        ELSE << [kind |-> "reply", invokedBy |-> state.currentUser.id,
                 chatId |-> 0, userName |-> "", unit |-> "",
                 initialQuery |-> "",
                 messages |-> Append(state.chatMessages,
                                     [sender |-> "user", text |-> userInput])] >>

\* handleUserChatSubmit after the await resolved: the conversation is stored
\* in the thread that is active now
userChatResolved(call, botText) ==
    LET finalMessages == Append(call.messages, [sender |-> "bot", text |-> botText])
        finalPendingChats == Map(state.pendingChats,
                                 LAMBDA chat : IF chat.id = state.activeChatId
                                               THEN [chat EXCEPT !.messages = finalMessages]
                                               ELSE chat)
    IN  [chatMessages |-> finalMessages, isBotTyping |-> FALSE,
         pendingChats |-> finalPendingChats]

\* handleUserChatSubmit after the await rejected
userChatRejected(call) ==
    [chatMessages |-> Append(call.messages,
                             [sender |-> "bot", text |-> "Sorry, I'm having trouble connecting right now. Please try again later."]),
     isBotTyping |-> FALSE]

\* handleAdminChatSubmit flipping adminReplied instead of setting it, so a
\* second reply reopens the thread; C12 tells it from the code
handleAdminChatSubmitFlipping(adminInputRaw) ==
    LET adminInput == trim(adminInputRaw)
        adminMessage == [sender |-> "admin", text |-> adminInput]
        updatedPendingChats == Map(state.pendingChats,
                                   LAMBDA chat : IF chat.id = state.viewingChatId
                                                 THEN [chat EXCEPT !.messages = Append(chat.messages, adminMessage),
                                                                   !.adminReplied = ~chat.adminReplied]
                                                 ELSE chat)
        viewed == {i \in DOMAIN state.pendingChats : state.pendingChats[i].id = state.viewingChatId}
        last == CHOOSE i \in viewed : \A j \in viewed : j <= i
    IN  IF adminInput = "" \/ state.viewingChatId = 0 THEN << >>
        ELSE IF viewed = {} THEN [pendingChats |-> updatedPendingChats]
        ELSE [chatMessages |-> updatedPendingChats[last].messages,
              pendingChats |-> updatedPendingChats]

\* handleAdminChatSubmit: every thread with the viewed id takes the message;
\* the live view shows the last of them
handleAdminChatSubmit(adminInputRaw) ==
    LET adminInput == trim(adminInputRaw)
        adminMessage == [sender |-> "admin", text |-> adminInput]
        updatedPendingChats == Map(state.pendingChats,
                                   LAMBDA chat : IF chat.id = state.viewingChatId
                                                 THEN [chat EXCEPT !.messages = Append(chat.messages, adminMessage),
                                                                   !.adminReplied = TRUE]
                                                 ELSE chat)
        viewed == {i \in DOMAIN state.pendingChats : state.pendingChats[i].id = state.viewingChatId}
        last == CHOOSE i \in viewed : \A j \in viewed : j <= i
    IN  IF adminInput = "" \/ state.viewingChatId = 0 THEN << >>
        ELSE IF viewed = {} THEN [pendingChats |-> updatedPendingChats]
        ELSE [chatMessages |-> updatedPendingChats[last].messages,
              pendingChats |-> updatedPendingChats]

\* handleCloseChatNotificationModal
handleCloseChatNotificationModal == [isChatNotificationModalOpen |-> FALSE]

\* handleReplyToChat
handleReplyToChat(chatId) ==
    LET chatToView == Find(state.pendingChats, LAMBDA c : c.id = chatId, NoChat)
    IN  IF chatToView = NoChat THEN << >>
        ELSE [isChatNotificationModalOpen |-> FALSE, isChatOpen |-> TRUE,
              chatState |-> "chatting", viewingChatId |-> chatId,
              chatMessages |-> chatToView.messages]

\* handleDismissChat
handleDismissChat(chatId) ==
    LET updatedChats == Map(state.pendingChats,
                            LAMBDA c : IF c.id = chatId THEN [c EXCEPT !.dismissed = TRUE] ELSE c)
        stillPending == Some(updatedChats, LAMBDA c : ~c.dismissed)
    IN  [pendingChats |-> updatedChats, isChatNotificationModalOpen |-> stillPending]

\* render: the chat widget exists for a signed-in tab
ChatbotRendered == state.isAuthenticated

\* renderChatbot
isViewingAsAdmin == state.viewingChatId # 0 /\ state.currentUser.role \in {"Admin", "Officer"}

\* renderChatbot locking a conversation on dismissal instead of on the
\* administrator's reply; C10 tells it from the code
isLockedForUserOnDismissal ==
    LET activeChat == Find(state.pendingChats,
                           LAMBDA c : c.id = state.activeChatId \/ c.id = state.viewingChatId,
                           NoChat)
    IN  state.currentUser.role = "Resident" /\ activeChat.dismissed

\* renderChatbot: the conversation is read-only for the resident
isLockedForUser ==
    LET activeChat == Find(state.pendingChats,
                           LAMBDA c : c.id = state.activeChatId \/ c.id = state.viewingChatId,
                           NoChat)
    IN  state.currentUser.role = "Resident" /\ activeChat.adminReplied

\* renderChatbot: which form the open chat window holds
StartChatFormRendered ==
    /\ ChatbotRendered /\ state.isChatOpen
    /\ state.chatState = "pre-form" /\ ~isViewingAsAdmin
AdminChatFormRendered ==
    /\ ChatbotRendered /\ state.isChatOpen
    /\ ~(state.chatState = "pre-form" /\ ~isViewingAsAdmin)
    /\ isViewingAsAdmin
UserChatFormRendered ==
    /\ ChatbotRendered /\ state.isChatOpen
    /\ ~(state.chatState = "pre-form" /\ ~isViewingAsAdmin)
    /\ ~isViewingAsAdmin
    /\ ~isLockedForUser

\* renderChatNotificationModal: the threads listed, each with its buttons
notifiedChats ==
    IF state.isChatNotificationModalOpen
    THEN SelectSeq(state.pendingChats, LAMBDA c : ~c.dismissed)
    ELSE << >>

\* the part of the chat store the model explores
ChatsWithinBounds(s) ==
    /\ Len(s.pendingChats) <= MaxChats
    /\ Len(s.chatMessages) <= MaxChatMessages
    /\ \A i \in DOMAIN s.pendingChats : Len(s.pendingChats[i].messages) <= MaxChatMessages

\* what may be typed into the chat forms
ChatNameInputs == {"pat"}
ChatBlockInputs == {"A"}
ChatHouseNoInputs == {"101"}
ChatQueryInputs == {" ", "is my guest here?"}
ChatReplyInputs == {" ", "thanks"}
AdminReplyInputs == {" ", "on my way"}

ToggleChat ==
    /\ ChatbotRendered
    /\ setState(handleToggleChat)
    /\ sessionStorage' = IF state.isChatOpen /\ closingLockedChat
                         THEN [sessionStorage EXCEPT !.activeChatId = 0]
                         ELSE sessionStorage
    /\ UNCHANGED <<now, calls>>

StartChatSubmit ==
    /\ StartChatFormRendered
    /\ \E name \in ChatNameInputs, block \in ChatBlockInputs, houseNo \in ChatHouseNoInputs,
          initialQuery \in ChatQueryInputs :
           LET made == startChatCalls(name, block, houseNo, initialQuery)
           IN  /\ setState(handleStartChatSubmit(name, block, houseNo, initialQuery))
               /\ calls' = calls \o made
               /\ sessionStorage' = IF made # << >>
                                    THEN [sessionStorage EXCEPT !.activeChatId = now]
                                    ELSE sessionStorage
    /\ Len(state.pendingChats) + Len(SelectSeq(calls', LAMBDA c : c.kind = "start")) <= MaxChats
    /\ UNCHANGED now

UserChatSubmit ==
    /\ UserChatFormRendered
    /\ \E userInput \in ChatReplyInputs :
           /\ setState(handleUserChatSubmit(userInput))
           /\ calls' = calls \o userChatCalls(userInput)
    /\ \A k \in DOMAIN calls' : Len(calls'[k].messages) < MaxChatMessages
    /\ UNCHANGED <<sessionStorage, now>>

AdminChatSubmit ==
    /\ AdminChatFormRendered
    /\ \E adminInput \in AdminReplyInputs : setState(handleAdminChatSubmit(adminInput))
    /\ ChatsWithinBounds(state')
    /\ UNCHANGED <<sessionStorage, now, calls>>

\* a sendMessage promise resolves and the handler that awaited it continues
CallResolved ==
    /\ \E k \in DOMAIN calls, botText \in BotTexts :
           /\ setState(IF calls[k].kind = "start"
                       THEN startChatResolved(calls[k], botText)
                       ELSE userChatResolved(calls[k], botText))
           /\ calls' = [i \in 1..(Len(calls) - 1) |-> IF i < k THEN calls[i] ELSE calls[i + 1]]
    /\ ChatsWithinBounds(state')
    /\ UNCHANGED <<sessionStorage, now>>

\* a sendMessage promise rejects and the handler's catch block runs
CallRejected ==
    /\ \E k \in DOMAIN calls :
           /\ setState(IF calls[k].kind = "start"
                       THEN startChatRejected(calls[k])
                       ELSE userChatRejected(calls[k]))
           /\ calls' = [i \in 1..(Len(calls) - 1) |-> IF i < k THEN calls[i] ELSE calls[i + 1]]
    /\ ChatsWithinBounds(state')
    /\ UNCHANGED <<sessionStorage, now>>

CloseChatNotificationModal ==
    /\ Len(notifiedChats) > 0
    /\ setState(handleCloseChatNotificationModal)
    /\ UNCHANGED <<sessionStorage, now, calls>>

ReplyToChat ==
    /\ \E i \in DOMAIN notifiedChats : setState(handleReplyToChat(notifiedChats[i].id))
    /\ UNCHANGED <<sessionStorage, now, calls>>

DismissChat ==
    /\ \E i \in DOMAIN notifiedChats : setState(handleDismissChat(notifiedChats[i].id))
    /\ UNCHANGED <<sessionStorage, now, calls>>

NextUsers ==
    \/ Login \/ Logout
    \/ UserRolesClick \/ CloseUserRoleModal
    \/ RoleChange \/ DeleteUser

NextCredentials ==
    \/ Login \/ Logout
    \/ UserRolesClick \/ CloseUserRoleModal
    \/ OpenEditUserModal \/ CloseEditUserModal \/ EditUserFormSubmit

NextUnits ==
    \/ Login \/ Logout
    \/ ManageUnitsClick \/ CloseUnitManagementModal \/ AddUnitSubmit \/ DeleteUnit

\* the part of the three stores explored together
RegistryWithinBounds(s) ==
    Cardinality({i \in DOMAIN s.visitors : s.visitors[i] # SeedVisitor(s.visitors[i].id)})
        + (Len(mockUsers) - Len(s.users))
        + Cardinality({i \in DOMAIN mockUnits : ~Some(s.predefinedUnits, LAMBDA u : u = mockUnits[i])})
        <= MaxRegistryChanges

NextRegistry ==
    \/ Login \/ Logout
    \/ RegisterClick \/ EditClick
    \/ UserRolesClick \/ ManageUnitsClick
    \/ FormSubmit /\ RegistryWithinBounds(state')
    \/ Approve /\ RegistryWithinBounds(state')
    \/ Reject /\ RegistryWithinBounds(state')
    \/ CheckIn /\ RegistryWithinBounds(state')
    \/ CheckOut /\ RegistryWithinBounds(state')
    \/ DeleteUser /\ RegistryWithinBounds(state')
    \/ DeleteUnit /\ RegistryWithinBounds(state')

NextVisitors ==
    \/ Login \/ Logout \/ Tick
    \/ RegisterClick \/ CloseModal \/ FormSubmit
    \/ Approve \/ Reject \/ CheckIn \/ CheckOut \/ CloseApprovalModal

NextRoleGate ==
    \/ Login \/ Logout
    \/ UserRolesClick \/ CloseUserRoleModal \/ RoleChange
    \/ Approve \/ Reject \/ CheckIn \/ CheckOut \/ CloseApprovalModal

NextVisitorEdit ==
    \/ Login \/ Logout
    \/ RegisterClick \/ EditClick \/ CloseModal \/ FormSubmit

NextChat ==
    \/ Login \/ Logout \/ Tick
    \/ ToggleChat \/ AdminChatSubmit
    \/ StartChatSubmit /\ Len(calls') <= MaxCalls
    \/ UserChatSubmit /\ Len(calls') <= MaxCalls
    \/ CallResolved \/ CallRejected
    \/ CloseChatNotificationModal \/ ReplyToChat \/ DismissChat

\* one session of the chat widget, with up to MaxTypingCalls calls in flight
NextTyping ==
    \/ Login \/ ToggleChat
    \/ StartChatSubmit /\ Len(calls') <= MaxTypingCalls
    \/ UserChatSubmit /\ Len(calls') <= MaxTypingCalls
    \/ CallResolved \/ CallRejected

SpecUsers == Init /\ [][NextUsers]_vars

SpecSession == InitStored /\ [][NextCredentials]_vars
SpecCredentials == Init /\ [][NextCredentials]_vars

SpecUnits == Init /\ [][NextUnits]_vars
SpecRegistry == Init /\ [][NextRegistry]_vars
SpecVisitors == Init /\ [][NextVisitors]_vars

SpecRoleGate == Init /\ [][NextRoleGate]_vars

SpecVisitorEdit == Init /\ [][NextVisitorEdit]_vars

SpecChat == Init /\ [][NextChat]_vars

\* the part of the persisted collections the save specifications explore
SavedWithinBounds(s) ==
    Cardinality({i \in DOMAIN s.users : s.users[i] # SeedUser(s.users[i].id)})
        + (Len(mockUsers) - Len(s.users)) <= MaxSavedChanges

\* a tab in which roles are changed, with the save timer; a timer that was
\* armed fires in the end
NextSave ==
    \/ Login \/ Logout
    \/ UserRolesClick
    \/ RoleChange /\ SavedWithinBounds(state')
    \/ SaveTimeout

SpecSave == Init /\ [][NextSave]_vars /\ WF_vars(SaveTimeout)

\* a tab that opens on stored sessions, in which users are deleted, with the
\* save timer and reloads
NextSessionUsers ==
    \/ Login \/ Logout
    \/ UserRolesClick
    \/ DeleteUser /\ SavedWithinBounds(state')
    \/ SaveTimeout \/ Reload

SpecSessionUsers == InitStored /\ [][NextSessionUsers]_vars

\* every sendMessage promise is settled in the end
SpecTyping == Init /\ [][NextTyping]_vars /\ WF_vars(CallResolved \/ CallRejected)

----------------------------------------------------------------------------
(* Properties: user and role management *)

\* the role the user store holds for the signed-in user
storedRole ==
    Find(state.users, LAMBDA u : u.id = state.currentUser.id, NoUser).role

\* C1: in every reachable state the users collection contains at least one
\* user with role Admin.
C1_AdminAlwaysExists == adminCount(state.users) >= 1

\* C2: an operation attempted by an actor whose role is outside the
\* operation's allowed set never changes the target: a visitor becomes
\* Approved or Rejected only under an Admin or Officer, Checked-in or
\* Checked-out only under an Admin or Security, the user store changes only
\* under an Admin, and a Resident changes no visitor.
C2_RoleGating ==
    [][ LET d == Len(state'.visitors) - Len(state.visitors)
        IN  /\ \A i \in DOMAIN state.visitors :
                   LET old == state.visitors[i]
                       new == state'.visitors[i + d]
                   IN  /\ (new.status # old.status /\ new.status \in {"Approved", "Rejected"})
                           => storedRole \in {"Admin", "Officer"}
                       /\ (new.status # old.status /\ new.status \in {"Checked-in", "Checked-out"})
                           => storedRole \in {"Admin", "Security"}
            /\ state'.users # state.users => storedRole = "Admin"
            /\ storedRole = "Resident" => state'.visitors = state.visitors ]_vars

\* C7: deleting an Admin who is the only Admin fails and leaves the users
\* collection unchanged; a confirmed deletion of an Admin who is not the only
\* Admin and not the acting user removes exactly that user, so the number of
\* Admins decreases by exactly one.
C7_DeleteAdmin ==
    \A i \in DOMAIN state.users, confirmed \in BOOLEAN :
        LET target == state.users[i]
            after == handleDeleteUser(target.id, confirmed) @@ state
        IN  target.role = "Admin" =>
                /\ adminCount(state.users) <= 1 => after.users = state.users
                /\ (adminCount(state.users) >= 2 /\ target.id # state.currentUser.id /\ confirmed)
                       => /\ after.users = SelectSeq(state.users, LAMBDA u : u.id # target.id)
                          /\ adminCount(after.users) = adminCount(state.users) - 1

\* C7 happens: an Admin other than the acting user has been deleted while a
\* second Admin existed, and the remaining Admin is now the only one
C7_Witness ==
    /\ state.isUserRoleModalOpen
    /\ Len(state.users) < Len(mockUsers)
    /\ ~Some(state.users, LAMBDA u : u.id = 1)
    /\ adminCount(state.users) = 1

\* C8: deleting the acting user fails whatever the target's role and the
\* number of Admins, and leaves the users collection and the sessions map
\* unchanged.
C8_SelfDelete ==
    HeaderRendered =>
        \A confirmed \in BOOLEAN :
            LET after == handleDeleteUser(state.currentUser.id, confirmed) @@ state
            IN  after.users = state.users /\ after.sessions = state.sessions

\* C8 happens: the acting user's own row is in the open user list, and the
\* last-administrator rule alone would let the deletion through
C8_Witness ==
    /\ HeaderRendered /\ state.isUserRoleModalOpen
    /\ Some(state.users, LAMBDA u : u.id = state.currentUser.id)
    /\ adminCount(state.users) >= 2
    /\ state.sessions # << >>

\* C9: changing the acting user's own role to anything but Admin fails and
\* leaves the users collection unchanged while there is at most one Admin;
\* with a second Admin the same change sets the acting user's role to the new
\* role and changes no other user.
C9_SelfDemotion ==
    HeaderRendered =>
        \A newRole \in Roles \ {"Admin"} :
            LET after == handleRoleChange(state.currentUser.id, newRole) @@ state
            IN  /\ adminCount(state.users) <= 1 => after.users = state.users
                /\ adminCount(state.users) >= 2 =>
                       /\ Len(after.users) = Len(state.users)
                       /\ \A i \in DOMAIN state.users :
                              IF state.users[i].id = state.currentUser.id
                              THEN after.users[i] = [state.users[i] EXCEPT !.role = newRole]
                              ELSE after.users[i] = state.users[i]

\* C9 happens: the acting Admin has given up the Admin role after a second
\* Admin was appointed
C9_Witness ==
    /\ state.isUserRoleModalOpen
    /\ state.currentUser.role = "Admin"
    /\ storedRole \in Roles \ {"Admin"}
    /\ adminCount(state.users) >= 1

----------------------------------------------------------------------------
(* Properties: visitor lifecycle.  A step never removes a visitor and adds   *)
(* new ones in front, so the record at position i before a step is the      *)
(* record at position i + d after it, d being the growth of the list.       *)

\* C3: once a visitor's status is Rejected or Checked-out, no operation
\* changes that visitor's status again.
C3_TerminalStatuses ==
    [][ LET d == Len(state'.visitors) - Len(state.visitors)
        IN  \A i \in DOMAIN state.visitors :
                state.visitors[i].status \in {"Rejected", "Checked-out"}
                    => state'.visitors[i + d].status = state.visitors[i].status ]_vars

\* C4: only a Pending visitor can become Approved or Rejected; approve and
\* reject leave the status of a visitor that is not Pending unchanged.
C4_DecisionOnlyFromPending ==
    [][ LET d == Len(state'.visitors) - Len(state.visitors)
        IN  \A i \in DOMAIN state.visitors :
                LET old == state.visitors[i]
                    new == state'.visitors[i + d]
                IN  (new.status \in {"Approved", "Rejected"} /\ new.status # old.status)
                        => old.status = "Pending" ]_vars

\* C5: a visitor's status changes to Checked-in only from Approved and to
\* Checked-out only from Checked-in; check-in and check-out change no visitor
\* in another status.
C5_CheckInOutOrder ==
    [][ LET d == Len(state'.visitors) - Len(state.visitors)
        IN  \A i \in DOMAIN state.visitors :
                LET old == state.visitors[i]
                    new == state'.visitors[i + d]
                IN  /\ (new.status = "Checked-in" /\ old.status # "Checked-in")
                        => old.status = "Approved"
                    /\ (new.status = "Checked-out" /\ old.status # "Checked-out")
                        => old.status = "Checked-in"
                    /\ new.checkInTime # old.checkInTime => old.status = "Approved"
                    /\ new.checkOutTime # old.checkOutTime => old.status = "Checked-in" ]_vars

\* C6: in every reachable state a visitor with both timestamps has
\* checkOutTime >= checkInTime, a Checked-in visitor has checkInTime set and
\* a Checked-out visitor has both set.
C6_Timestamps ==
    \A i \in DOMAIN state.visitors :
        LET v == state.visitors[i]
        IN  /\ (v.checkInTime # 0 /\ v.checkOutTime # 0) => v.checkOutTime >= v.checkInTime
            /\ v.status = "Checked-in" => v.checkInTime # 0
            /\ v.status = "Checked-out" => (v.checkInTime # 0 /\ v.checkOutTime # 0)

----------------------------------------------------------------------------
(* Properties: chat threads *)

\* C10: once adminReplied is true on a thread, a reply of the owning
\* resident on that thread is refused: whatever the resident submits in the
\* reply form the page offers, the thread keeps its messages, and no
\* collaborator call is made for it.
C10_RepliedThreadIsReadOnly ==
    \A i \in DOMAIN state.pendingChats, userInput \in ChatReplyInputs :
        LET thread == state.pendingChats[i]
            after == handleUserChatSubmit(userInput) @@ state
        IN  (/\ thread.adminReplied
             /\ state.currentUser.role = "Resident"
             /\ thread.userId = state.currentUser.id
             /\ UserChatFormRendered)
                => /\ after.pendingChats[i].messages = thread.messages
                   /\ thread.id = state.activeChatId => userChatCalls(userInput) = << >>

\* C10 happens: the resident is signed in with a live collaborator session,
\* the open conversation is the resident's own thread, and an administrator
\* has replied on it (three messages: user, bot, admin)
C10_Witness ==
    /\ state.currentUser.role = "Resident"
    /\ state.isChatOpen /\ state.chatState = "chatting"
    /\ state.chatSession # 0 /\ state.activeChatId # 0
    /\ \E i \in DOMAIN state.pendingChats :
           /\ state.pendingChats[i].id = state.activeChatId
           /\ state.pendingChats[i].userId = state.currentUser.id
           /\ state.pendingChats[i].adminReplied
           /\ Len(state.pendingChats[i].messages) = 3

\* C11: the messages sequence of every PendingChat is append-only: across
\* any step, collaborator replies arriving after interleaved events included,
\* the old messages sequence is a prefix of the new one.
C11_MessagesAppendOnly ==
    [][ \A i \in DOMAIN state.pendingChats :
            LET old == state.pendingChats[i].messages
            IN  /\ i \in DOMAIN state'.pendingChats
                /\ Len(old) <= Len(state'.pendingChats[i].messages)
                /\ SubSeq(state'.pendingChats[i].messages, 1, Len(old)) = old ]_vars

\* C12: adminReplied and dismissed are one-way latches and no PendingChat is
\* ever removed: across any step every thread is still there, and a flag
\* that was true is still true.
C12_OneWayLatches ==
    [][ \A i \in DOMAIN state.pendingChats :
            /\ i \in DOMAIN state'.pendingChats
            /\ state'.pendingChats[i].id = state.pendingChats[i].id
            /\ state.pendingChats[i].adminReplied => state'.pendingChats[i].adminReplied
            /\ state.pendingChats[i].dismissed => state'.pendingChats[i].dismissed ]_vars

\* C12 happens: a thread that was dismissed and answered by an administrator
\* has lived through a later logout, and another thread was started after it
C12_Witness ==
    /\ Len(state.pendingChats) = 2
    /\ state.pendingChats[1].adminReplied /\ state.pendingChats[1].dismissed
    /\ ~state.isAuthenticated

\* C13: adminReply with non-empty text on an existing thread appends exactly
\* one admin message to that thread and sets its adminReplied, leaving its
\* dismissed flag, its owner and every other thread unchanged.
C13_AdminReplyEffect ==
    \A adminInput \in AdminReplyInputs :
        LET viewed == {i \in DOMAIN state.pendingChats :
                           state.pendingChats[i].id = state.viewingChatId}
            target == CHOOSE i \in viewed : \A j \in viewed : i <= j
            after == handleAdminChatSubmit(adminInput) @@ state
        IN  (AdminChatFormRendered /\ viewed # {} /\ trim(adminInput) # "")
                => /\ Len(after.pendingChats) = Len(state.pendingChats)
                   /\ \A i \in DOMAIN state.pendingChats :
                          after.pendingChats[i] =
                              IF i = target
                              THEN [state.pendingChats[i] EXCEPT
                                        !.messages = Append(@, [sender |-> "admin",
                                                                text |-> trim(adminInput)]),
                                        !.adminReplied = TRUE]
                              ELSE state.pendingChats[i]

\* C14: startThread always results in a PendingChat for the new thread id
\* whose messages are the user's first message followed by a bot message,
\* also when the collaborator fails; a failed userReply appends the apology
\* as a bot message to the thread's messages.
C14_ThreadSurvivesFailure ==
    [][ \A k \in DOMAIN calls :
            (Len(calls') < Len(calls) /\ \A j \in DOMAIN calls' : calls'[j] # calls[k])
                => IF calls[k].kind = "start"
                   THEN \E i \in DOMAIN state'.pendingChats :
                            LET thread == state'.pendingChats[i]
                            IN  /\ thread.id = calls[k].chatId
                                /\ Len(thread.messages) >= 2
                                /\ thread.messages[1] = calls[k].messages[1]
                                /\ thread.messages[2].sender = "bot"
                   ELSE \A i \in DOMAIN state.pendingChats :
                            state.pendingChats[i].id = state.activeChatId
                                => LET messages == state'.pendingChats[i].messages
                                   IN  /\ Len(messages) > Len(calls[k].messages)
                                       /\ messages[Len(messages)].sender = "bot" ]_vars

----------------------------------------------------------------------------
(* Login and logout *)

\* C15: login succeeds exactly when some user has both the given username and
\* the given password. On success a fresh token mapped to that user's id is
\* added to the sessions map, the existing entries are kept, and the tab is
\* authenticated as that user. On failure the sessions map, the users and the
\* authentication state are unchanged and the invalid-credentials error is
\* reported.
C15_Login ==
    [][ \A username \in LoginUsernames, password \in LoginPasswords :
            (LoginFormRendered /\ handleLoginSubmit(username, password))
                => LET matching == {i \in DOMAIN state.users :
                                       /\ state.users[i].username = username
                                       /\ state.users[i].password = password}
                   IN  IF matching # {}
                       THEN \E i \in matching :
                                /\ sessionStorage'.sessionId \notin DOMAIN state.sessions
                                /\ DOMAIN state'.sessions =
                                       DOMAIN state.sessions \cup {sessionStorage'.sessionId}
                                /\ state'.sessions[sessionStorage'.sessionId] = state.users[i].id
                                /\ \A t \in DOMAIN state.sessions : state'.sessions[t] = state.sessions[t]
                                /\ state'.isAuthenticated
                                /\ state'.currentUser = state.users[i]
                                /\ state'.loginError = ""
                                /\ state'.users = state.users
                       ELSE /\ state'.sessions = state.sessions
                            /\ state'.users = state.users
                            /\ state'.isAuthenticated = state.isAuthenticated
                            /\ state'.currentUser = state.currentUser
                            /\ sessionStorage' = sessionStorage
                            /\ state'.loginError = "Invalid username or password." ]_vars

\* a user signed in with changed credentials, after an attempt was refused
C15_Witness ==
    /\ state.isAuthenticated
    /\ state.currentUser.username = "root" /\ state.currentUser.password = "secret"
    /\ sessionStorage.sessionId \in DOMAIN state.sessions
    /\ state.sessions[sessionStorage.sessionId] = state.currentUser.id
    /\ \E i \in DOMAIN state.users : state.users[i] = state.currentUser
    /\ {7, 8} \subseteq DOMAIN state.sessions

\* C16: logout removes exactly the current token's entry from the sessions
\* map and leaves every other entry and every other collection unchanged; it
\* is idempotent: with the token absent (a second logout) the sessions map
\* stays as it is.
C16_Logout ==
    /\ [](sessionStorage.sessionId \notin DOMAIN state.sessions
              => (destroySession @@ state).sessions = state.sessions)
    /\ [][ (HeaderRendered /\ handleLogout)
              => /\ DOMAIN state'.sessions = DOMAIN state.sessions \ {sessionStorage.sessionId}
                 /\ \A t \in DOMAIN state'.sessions : state'.sessions[t] = state.sessions[t]
                 /\ sessionStorage'.sessionId \notin DOMAIN state'.sessions
                 /\ state'.users = state.users
                 /\ state'.visitors = state.visitors
                 /\ state'.companyInfo = state.companyInfo
                 /\ state'.predefinedUnits = state.predefinedUnits
                 /\ state'.pendingChats = state.pendingChats ]_vars

\* signed out again after credentials were changed, the sessions of the
\* other tabs still there
C16_Witness ==
    /\ ~state.isAuthenticated
    /\ sessionStorage.sessionId = 0
    /\ \E i \in DOMAIN state.users : state.users[i].username = "root"
    /\ DOMAIN state.sessions = {7, 8}

----------------------------------------------------------------------------
(* Properties: unit registry *)

\* C17: no two units in the registry share the same (block, houseNo) pair;
\* addUnit of a unit that is already there, or of a block or house number
\* that is empty after trimming, leaves the registry unchanged.
C17_UnitsDistinct ==
    /\ \A i, j \in DOMAIN state.predefinedUnits :
           (state.predefinedUnits[i].block = state.predefinedUnits[j].block
            /\ state.predefinedUnits[i].houseNo = state.predefinedUnits[j].houseNo) => i = j
    /\ \A blockInput \in UnitBlockInputs, houseNoInput \in UnitHouseNoInputs :
           LET block == toUpperCase(trim(blockInput))
               houseNo == trim(houseNoInput)
               after == handleAddUnitSubmit(blockInput, houseNoInput) @@ state
           IN  (UnitManagementModalRendered
                /\ (block = "" \/ houseNo = ""
                    \/ \E i \in DOMAIN state.predefinedUnits :
                           /\ state.predefinedUnits[i].block = block
                           /\ state.predefinedUnits[i].houseNo = houseNo))
                   => after.predefinedUnits = state.predefinedUnits

\* the form is open on a registry that holds an added unit, A-9, next to the
\* seed unit A-101: typing either again is the duplicate case
C17_Witness ==
    /\ UnitManagementModalRendered
    /\ \E i, j \in DOMAIN state.predefinedUnits :
           /\ state.predefinedUnits[i] = [block |-> "A", houseNo |-> "9"]
           /\ state.predefinedUnits[j] = [block |-> "A", houseNo |-> "101"]

\* C18: the unit list is sorted by block (lexicographic) and, within a block,
\* by house number compared as numbers ("9" before "10"), after any addUnit
\* or deleteUnit.
C18_UnitsSorted ==
    \A i, j \in DOMAIN state.predefinedUnits :
        i < j => LET a == state.predefinedUnits[i]
                     b == state.predefinedUnits[j]
                 IN  \/ codeUnit(a.block) < codeUnit(b.block)
                     \/ /\ a.block = b.block
                        /\ numericValue(a.houseNo) <= numericValue(b.houseNo)

\* units were added and deleted: A-9 and A-10 lead the list, a seed unit of
\* block A is gone, and a unit of block D was added after them
C18_Witness ==
    /\ Len(state.predefinedUnits) >= 3
    /\ state.predefinedUnits[1] = [block |-> "A", houseNo |-> "9"]
    /\ state.predefinedUnits[2] = [block |-> "A", houseNo |-> "10"]
    /\ state.predefinedUnits[3] # [block |-> "A", houseNo |-> "101"]

----------------------------------------------------------------------------
(* Properties: credentials *)

\* C19: editCredentials fails without changing any user when the new username
\* is empty after trimming, when it is the username of a different user, or
\* when the new password differs from its confirmation; so the usernames stay
\* pairwise distinct in every reachable state.  A successful edit with no new
\* password leaves the target's password unchanged, and no edit changes any
\* user's id or role.
C19_EditCredentials ==
    /\ \A i, j \in DOMAIN state.users :
           state.users[i].username = state.users[j].username => i = j
    /\ \A usernameInput \in UsernameInputs, newPassword, confirmPassword \in PasswordInputs :
           LET username == trim(usernameInput)
               after == handleEditUserFormSubmit(usernameInput, newPassword, confirmPassword) @@ state
               refused == \/ username = ""
                          \/ newPassword # confirmPassword
                          \/ \E i \in DOMAIN state.users :
                                 /\ state.users[i].username = username
                                 /\ state.users[i].id # state.editingUserId
           IN  EditUserFormRendered
                   => /\ refused => after.users = state.users
                      /\ Len(after.users) = Len(state.users)
                      /\ \A i \in DOMAIN state.users :
                             /\ after.users[i].id = state.users[i].id
                             /\ after.users[i].role = state.users[i].role
                             /\ newPassword = "" => after.users[i].password = state.users[i].password
                             /\ (~refused /\ state.users[i].id = state.editingUserId)
                                    => after.users[i].username = username

\* the form is open for one user after another one was renamed to root with
\* a new password: typing root is now the taken-username case
C19_Witness ==
    /\ EditUserFormRendered
    /\ \E i \in DOMAIN state.users :
           /\ state.users[i].username = "root"
           /\ state.users[i].password = "secret"
           /\ state.users[i].id # state.editingUserId

----------------------------------------------------------------------------
(* Properties: visitor edit *)

\* C20: the edit of a visitor is permitted in any status and changes only
\* non-status fields: the visitor's id, status, checkInTime and checkOutTime
\* are the same before and after the edit, and no other visitor is changed.
C20_EditVisitor ==
    \A nameInput \in VisitorNameInputs, blockInput \in VisitorBlockInputs,
       houseNoInput \in VisitorHouseNoInputs :
        LET edited == {i \in DOMAIN state.visitors : state.visitors[i].id = state.editingVisitorId}
            after == handleFormSubmit(nameInput, blockInput, houseNoInput) @@ state
        IN  (VisitorFormRendered /\ state.editingVisitorId # 0 /\ edited # {})
                => /\ Len(after.visitors) = Len(state.visitors)
                   /\ \A i \in DOMAIN state.visitors :
                          /\ after.visitors[i].id = state.visitors[i].id
                          /\ after.visitors[i].status = state.visitors[i].status
                          /\ after.visitors[i].checkInTime = state.visitors[i].checkInTime
                          /\ after.visitors[i].checkOutTime = state.visitors[i].checkOutTime
                   /\ \E target \in edited :
                          \A i \in DOMAIN state.visitors \ {target} :
                              after.visitors[i] = state.visitors[i]

----------------------------------------------------------------------------
(* Properties: visitor registry *)

\* C21: register adds exactly one new visitor with status Pending and no
\* checkInTime or checkOutTime, and leaves every existing visitor unchanged.
C21_Register ==
    \A nameInput \in VisitorNameInputs, blockInput \in VisitorBlockInputs,
       houseNoInput \in VisitorHouseNoInputs :
        LET after == handleFormSubmit(nameInput, blockInput, houseNoInput) @@ state
        IN  (VisitorFormRendered /\ state.editingVisitorId = 0)
                => /\ Len(after.visitors) = Len(state.visitors) + 1
                   /\ after.visitors[1].status = "Pending"
                   /\ after.visitors[1].checkInTime = 0
                   /\ after.visitors[1].checkOutTime = 0
                   /\ \A i \in DOMAIN state.visitors : after.visitors[i + 1] = state.visitors[i]

\* the registration form is open on a registry that already holds a
\* registered visitor who has since been checked in
C21_Witness ==
    /\ VisitorFormRendered /\ state.editingVisitorId = 0
    /\ \E i \in DOMAIN state.visitors :
           /\ state.visitors[i].id >= LoadTime
           /\ state.visitors[i].status = "Checked-in"

\* C22: visitor ids are unique: in every reachable state no two visitor
\* records have the same id, whatever the sequence of registrations (two at
\* the same clock value included), so that a lifecycle operation addressed to
\* an id changes at most one record.
C22_VisitorIdsUnique ==
    /\ \A i, j \in DOMAIN state.visitors :
           state.visitors[i].id = state.visitors[j].id => i = j
    /\ \A k \in DOMAIN state.visitors :
           LET id == state.visitors[k].id
               changedBy(partial) ==
                   {i \in DOMAIN state.visitors : (partial @@ state).visitors[i] # state.visitors[i]}
           IN  /\ Cardinality(changedBy(handleApprove(id))) <= 1
               /\ Cardinality(changedBy(handleReject(id))) <= 1
               /\ Cardinality(changedBy(handleCheckIn(id))) <= 1
               /\ Cardinality(changedBy(handleCheckOut(id))) <= 1

\* C23: visitor records are never deleted: across any step of any operation
\* (register, edit, approve, reject, check-in, check-out, deleteUnit,
\* deleteUser, logout) the set of visitor ids present never loses an element.
C23_VisitorsNeverDeleted ==
    [][ /\ Len(state'.visitors) >= Len(state.visitors)
        /\ \A i \in DOMAIN state.visitors :
               \E j \in DOMAIN state'.visitors : state'.visitors[j].id = state.visitors[i].id ]_vars

\* a registered visitor is still listed after the unit they visit was
\* deleted and the administrator signed out
C23_Witness ==
    /\ ~state.isAuthenticated
    /\ ~Some(state.predefinedUnits, LAMBDA u : u.block = "A" /\ u.houseNo = "101")
    /\ \E i \in DOMAIN state.visitors :
           state.visitors[i].id >= LoadTime /\ state.visitors[i].resident = "A-101"

----------------------------------------------------------------------------
(* Properties: the resident's active thread *)

\* the newest open thread of user u in state s, 0 when there is none
newestOpenThread(s, u) ==
    LET open == {s.pendingChats[i].id : i \in
                     {j \in DOMAIN s.pendingChats :
                          /\ s.pendingChats[j].userId = u.id
                          /\ ~s.pendingChats[j].adminReplied
                          /\ ~s.pendingChats[j].dismissed}}
    IN  IF open = {} THEN 0 ELSE CHOOSE id \in open : \A other \in open : other <= id

\* C24: when a Resident logs in, or the page reloads with their session, the
\* active thread selected for them is the most recently created thread
\* (largest id) with their userId, adminReplied = false and dismissed = false,
\* or none if there is no such thread; and whenever a Resident's active-thread
\* pointer is non-null during a session it refers to an existing thread owned
\* by that Resident.
C24_ActiveThread ==
    /\ \A i \in DOMAIN state.users :
           state.users[i].role = "Resident"
               => initializeUserSession(state, state.users[i]).activeChatId
                      = newestOpenThread(state, state.users[i])
    /\ LET reloaded == init(dataToSave(state))
       IN  (reloaded.isAuthenticated /\ reloaded.currentUser.role = "Resident")
               => reloaded.activeChatId = newestOpenThread(state, reloaded.currentUser)
    /\ (state.isAuthenticated /\ state.currentUser.role = "Resident" /\ state.activeChatId # 0)
           => \E i \in DOMAIN state.pendingChats :
                  /\ state.pendingChats[i].id = state.activeChatId
                  /\ state.pendingChats[i].userId = state.currentUser.id

\* C25: dismissing a thread sets dismissed = true and leaves the thread's
\* messages and adminReplied unchanged, and a resident whose thread was
\* active before the dismiss still gets that thread as active afterwards,
\* including after their next login.
C25_DismissKeepsActive ==
    \A i \in DOMAIN notifiedChats :
        LET chatId == notifiedChats[i].id
            after == handleDismissChat(chatId) @@ state
        IN  /\ Len(after.pendingChats) = Len(state.pendingChats)
            /\ \A j \in DOMAIN state.pendingChats :
                   state.pendingChats[j].id = chatId
                       => /\ after.pendingChats[j].dismissed
                          /\ after.pendingChats[j].messages = state.pendingChats[j].messages
                          /\ after.pendingChats[j].adminReplied = state.pendingChats[j].adminReplied
            /\ \A k \in DOMAIN state.users :
                   (/\ state.users[k].role = "Resident"
                    /\ initializeUserSession(state, state.users[k]).activeChatId = chatId)
                       => initializeUserSession(after, state.users[k]).activeChatId = chatId

\* C26: isBotTyping is true while a startThread or userReply call of the
\* current session is outstanding and eventually false once every
\* outstanding call has returned or failed, including when a second
\* userReply is submitted before the first reply arrives.
C26_TypingIndicator ==
    /\ [](calls # << >> => state.isBotTyping)
    /\ (calls = << >>) ~> ~state.isBotTyping

----------------------------------------------------------------------------
(* Properties: persistence *)

\* C27: every change to a persisted collection, including the session entry
\* added at login and removed at logout, is eventually written to storage by
\* the debounced save if no further change follows, even when the actor logs
\* out before the timer fires: either the persisted collections keep
\* changing, or storage holds them again and again.
C27_EventuallySaved ==
    \/ []<>(localStorage = dataToSave(state))
    \/ []<><<dataToSave(state') # dataToSave(state)>>_vars

----------------------------------------------------------------------------
(* Properties: the owner of a thread *)

\* C28: the PendingChat created by startThread has userId equal to the id of
\* the user who was logged in when startThread was invoked, even if a logout
\* or login occurs while the call is outstanding: a step that adds a thread
\* is the return of a startThread call, and the thread's userId is the id of
\* that call's invoker.
C28_ThreadOwner ==
    [][Len(state'.pendingChats) = Len(state.pendingChats) + 1
           => LET newPendingChat == state'.pendingChats[Len(state'.pendingChats)]
              IN  \E k \in DOMAIN calls :
                      /\ calls[k].kind = "start"
                      /\ Len(calls') = Len(calls) - 1
                      /\ newPendingChat.id = calls[k].chatId
                      /\ newPendingChat.userId = calls[k].invokedBy]_vars

----------------------------------------------------------------------------
(* Properties: the signed-in user and the session table *)

\* C29: in every authenticated state the role held in currentUser equals the
\* role of the user with the same id in users.
C29_CurrentUserRole ==
    state.isAuthenticated
        => \A i \in DOMAIN state.users :
               state.users[i].id = state.currentUser.id
                   => state.users[i].role = state.currentUser.role

\* C30: every entry of sessions refers to a user that exists in users;
\* deleting a user leaves no session entry pointing at the deleted user; and
\* a token whose user no longer exists authenticates nobody on reload.
C30_SessionsReferToUsers ==
    /\ \A token \in DOMAIN state.sessions :
           \E i \in DOMAIN state.users : state.users[i].id = state.sessions[token]
    /\ \A i \in DOMAIN state.users :
           LET id == state.users[i].id
               after == handleDeleteUser(id, TRUE) @@ state
           IN  (state.isUserRoleModalOpen /\ after.users # state.users)
                   => \A token \in DOMAIN after.sessions : after.sessions[token] # id
    /\ \A token \in DOMAIN state.sessions :
           (~\E i \in DOMAIN state.users : state.users[i].id = state.sessions[token])
               => ~initOfTab(dataToSave(state), token).isAuthenticated

====
